---- MODULE Spec2Model ----
(***************************************************************************)
(* Model of zaqar/transport/websocket/protocol.py.                         *)
(*                                                                         *)
(* MessagingProtocol (Spec, FairSpec): one websocket session.  The state   *)
(* is the fields set                                                       *)
(* in __init__ plus what the event loop and the transport hold for the     *)
(* session: the authenticators that were invoked and have not resolved,    *)
(* the timers that are scheduled, and the state of the connection.         *)
(* Each callback the event loop can run (onMessage, the authenticator's    *)
(* completion, the timer, onClose) is one action.                          *)
(*                                                                         *)
(* NotificationProtocol (NSpec): one notification connection.  The peer's  *)
(* bytes reach data_received in consecutive chunks of any size.            *)
(***************************************************************************)
EXTENDS Integers, Sequences, FiniteSets, TLC

\* Bound: authenticators instantiated during one session.
MaxAuth == 3

\* Python's None for the two optional fields (_auth_app, _deauth_handle).
None == 0

----------------------------------------------------------------------------
(* Inbound frames *)

\* payload.get('headers'): absent, or a mapping given as a set of
\* <<key, value>> pairs.
NoHeaders == [present |-> FALSE, map |-> {}]

HeaderChoices ==
    { NoHeaders,
      [present |-> TRUE, map |-> {}],
      [present |-> TRUE, map |-> {<<"URL-Signature", "good">>}],
      [present |-> TRUE, map |-> {<<"URL-Signature", "bad">>}],
      [present |-> TRUE, map |-> {<<"X-Auth-Token", "tok">>}] }

PayloadActions == {"authenticate", "queue_list", "bogus"}

\* Text of a frame: either it is not JSON (raw names the text), or it is a
\* JSON object with an action and optional headers.
Payloads ==
    [decodable : {FALSE}, raw : {"{", "nope"}, action : {"bogus"},
     headers : {NoHeaders}]
    \cup
    [decodable : {TRUE}, raw : {"json"}, action : PayloadActions,
     headers : HeaderChoices]

\* Binary frames: bytes that are no JSON, and bytes that would be a valid
\* frame if they came as text.
BinaryPayloads ==
    { p \in Payloads :
        \/ ~p.decodable
        \/ p.action = "authenticate" /\ p.headers.map = {<<"X-Auth-Token", "tok">>}
        \/ p.action = "queue_list" /\ p.headers.map = {<<"URL-Signature", "good">>} }

Frames ==
    [isBinary : {FALSE}, payload : Payloads]
    \cup [isBinary : {TRUE}, payload : BinaryPayloads]

NoFrame == [isBinary |-> FALSE,
            payload |-> [decodable |-> FALSE, raw |-> "", action |-> "bogus",
                         headers |-> NoHeaders]]

\* str(ex) of the ValueError json.loads raises on a text.
StrEx(raw) ==
    CASE raw = "{" -> "Expecting property name"
      [] OTHER -> "No JSON object could be decoded"

\* json.loads(payload)
JsonLoads(payload) ==
    IF payload.decodable
    THEN [ok |-> TRUE, ex |-> "",
          doc |-> [action |-> payload.action, headers |-> payload.headers]]
    ELSE [ok |-> FALSE, ex |-> StrEx(payload.raw),
          doc |-> [action |-> "bogus", headers |-> NoHeaders]]

\* payload.get('headers', {})
GetHeaders(doc) == IF doc.headers.present THEN doc.headers.map ELSE {}

\* 'URL-Signature' in payload.get('headers', {})
HasSignature(doc) == \E kv \in GetHeaders(doc) : kv[1] = "URL-Signature"

----------------------------------------------------------------------------
(* The backend request handler (self._handler), a collaborator *)

NoReq == "None"

\* handler.create_request(payload): the request is known by its action.
CreateRequest(doc) == doc.action

\* handler.create_response(code, body, req)
CreateResponse(code, key, text, req) ==
    [code |-> code, key |-> key, text |-> text, req |-> req]

\* handler.validate_request(payload, req): None, or the response to send.
NoResp == [code |-> 0, key |-> "", text |-> "", req |-> NoReq]

ValidateRequest(doc, req) ==
    IF doc.action \in {"authenticate", "queue_list"}
    THEN NoResp
    ELSE CreateResponse(400, "error", "Invalid action.", req)

\* handler.process_request(req, self)
ProcessRequest(req) == CreateResponse(200, "message", "processed", req)

\* handler.verify_signature(self.factory._secret_key, payload)
VerifySignature(doc) == <<"URL-Signature", "good">> \in GetHeaders(doc)

----------------------------------------------------------------------------
(* Session state *)

VARIABLES
    auth_strategy,   \* self._auth_strategy is set (truthy)
    authentified,    \* self._authentified
    auth_app,        \* self._auth_app: None or the authenticator's id
    deauth_handle,   \* self._deauth_handle: None or the timer's id
    nAuth,           \* authenticators instantiated so far
    nTimer,          \* timers scheduled so far (loop.call_later calls)
    inflight,        \* authenticators invoked and not yet resolved
    timers,          \* timers scheduled, neither fired nor cancelled
    conn,            \* the transport: "open", "closing" or "closed"
    last,            \* the callback that ran last and what it did
    first_refusal    \* history: the first frame refused before routing,
                     \* with the responses it got

\* NotificationProtocol: the fields set in connection_made, and what the
\* transport and the factory hold for the connection.
VARIABLES
    mimetools,       \* the import of mimetools succeeded (Message is
                     \* mimetools.Message, not email's MIMEMessage)
    n_stream,        \* the bytes the peer sends on the connection
    n_sent,          \* how many of them data_received has been given
    n_transport,     \* "none", "open", "closed" (transport.close() called),
                     \* "aborted" (dropped after an exception) or "lost"
    _data,           \* self._data
    _state,          \* self._state
    _subscriber_id,  \* self._subscriber_id
    _length,         \* self._length
    n_written,       \* the statuses written to the transport
    n_fanout,        \* the factory.send_data calls: <<body, subscriber>>
    n_last           \* the callback that ran last

nvars == <<mimetools, n_stream, n_sent, n_transport, _data, _state,
           _subscriber_id, _length, n_written, n_fanout, n_last>>

vars == <<auth_strategy, authentified, auth_app, deauth_handle, nAuth,
          nTimer, inflight, timers, conn, last, first_refusal, nvars>>

\* An attribute that is None or not yet set.
NoBytes == <<"None">>

NoCall == [op |-> "init", raised |-> ""]

\* The protocol object after __init__: connection_made has not run.
NConstructed ==
    /\ n_sent = 0
    /\ n_transport = "none"
    /\ _data = NoBytes
    /\ _state = "unset"
    /\ _subscriber_id = NoBytes
    /\ _length = 0
    /\ n_written = <<>>
    /\ n_fanout = <<>>
    /\ n_last = NoCall

NoEvent ==
    [op |-> "init", frame |-> NoFrame, out |-> <<>>, dispatched |-> FALSE,
     started |-> None, invoked |-> FALSE, raised |-> "",
     env |-> {}, resolved |-> None, status |-> <<0, "">>, delay |-> 0,
     timer |-> None, cancelled |-> None, close |-> <<0, "">>]

Init ==
    /\ auth_strategy \in BOOLEAN
    /\ authentified = FALSE
    /\ auth_app = None
    /\ deauth_handle = None
    /\ nAuth = 0
    /\ nTimer = 0
    /\ inflight = {}
    /\ timers = {}
    /\ conn = "open"
    /\ last = NoEvent
    /\ first_refusal = [seen |-> FALSE, frame |-> NoFrame, out |-> <<>>]
    /\ mimetools = TRUE
    /\ n_stream = <<>>
    /\ NConstructed

----------------------------------------------------------------------------
(* onMessage *)

\* Mutation of EarlyResponse: the isBinary test is missing, a binary frame
\* is decoded like a text frame.
EarlyResponseNoBinaryTest(frame) ==
    LET j == JsonLoads(frame.payload)
    IN  IF ~j.ok
        THEN CreateResponse(400, "error", j.ex, NoReq)
        ELSE ValidateRequest(j.doc, CreateRequest(j.doc))

\* The part of onMessage before routing: the response of a frame that is
\* refused there, or NoResp when validate_request returned None.
EarlyResponse(frame) ==
    IF frame.isBinary
    THEN CreateResponse(400, "error", "Schema validation failed.", NoReq)
    ELSE LET j == JsonLoads(frame.payload)
         IN  IF ~j.ok
             THEN CreateResponse(400, "error", j.ex, NoReq)
             ELSE ValidateRequest(j.doc, CreateRequest(j.doc))

\* Mutation of Route: a frame that carries a URL-Signature header is
\* processed without verify_signature being asked.
RouteSignatureUnverified(doc) ==
    IF auth_strategy /\ ~authentified
    THEN IF auth_app # None \/ doc.action # "authenticate"
         THEN IF HasSignature(doc) THEN "process" ELSE "forbid"
         ELSE "authenticate"
    ELSE IF doc.action = "authenticate" THEN "authenticate" ELSE "process"

\* Mutation of Route: the test of self._authentified is missing, every
\* session of a listener with a strategy is treated as unauthenticated.
RouteIgnoresAuthentified(doc) ==
    IF auth_strategy
    THEN IF auth_app # None \/ doc.action # "authenticate"
         THEN IF HasSignature(doc)
              THEN IF VerifySignature(doc) THEN "process" ELSE "forbid"
              ELSE "forbid"
         ELSE "authenticate"
    ELSE IF doc.action = "authenticate" THEN "authenticate" ELSE "process"

\* The routing of a validated frame: "process" (process_request),
\* "forbid" (403) or "authenticate" (_authenticate).
Route(doc) ==
    IF auth_strategy /\ ~authentified
    THEN IF auth_app # None \/ doc.action # "authenticate"
         THEN IF HasSignature(doc)
              THEN IF VerifySignature(doc) THEN "process" ELSE "forbid"
              ELSE "forbid"
         ELSE "authenticate"
    ELSE IF doc.action = "authenticate" THEN "authenticate" ELSE "process"

NotAuthentified(req) == CreateResponse(403, "error", "Not authentified.", req)

_fake_env ==
    { <<"REQUEST_METHOD", "POST">>, <<"SERVER_NAME", "zaqar">>,
      <<"SERVER_PORT", "80">>, <<"SERVER_PROTOCOL", "HTTP/1.1">>,
      <<"PATH_INFO", "/">>, <<"SCRIPT_NAME", "">>,
      <<"wsgi.url_scheme", "http">> }

\* 'HTTP_%s' % key.replace('-', '_').upper(), on the keys frames carry
_header_to_env_var(key) ==
    CASE key = "URL-Signature" -> "HTTP_URL_SIGNATURE"
      [] key = "X-Auth-Token" -> "HTTP_X_AUTH_TOKEN"
      [] OTHER -> "HTTP_"

\* env = self._fake_env.copy(); env.update(...)
AuthEnv(map) ==
    LET extra == { <<_header_to_env_var(kv[1]), kv[2]>> : kv \in map }
    IN  { kv \in _fake_env : \A x \in extra : x[1] # kv[1] } \cup extra

\* _authenticate(payload).  A strategy of None is not callable: the call
\* raises before anything is assigned.  payload.get('headers') of a frame
\* without headers is None: .items() raises after _auth_app was assigned
\* and before the authenticator is invoked.
_authenticate(frame, doc) ==
    IF ~auth_strategy
    THEN /\ UNCHANGED <<auth_app, nAuth, inflight>>
         /\ last' = [NoEvent EXCEPT !.op = "onMessage", !.frame = frame,
                                     !.raised = "TypeError"]
    ELSE /\ nAuth < MaxAuth
         /\ nAuth' = nAuth + 1
         /\ auth_app' = nAuth + 1
         /\ IF doc.headers.present
            THEN /\ inflight' = inflight \cup {nAuth + 1}
                 /\ last' = [NoEvent EXCEPT !.op = "onMessage",
                                !.frame = frame, !.started = nAuth + 1,
                                !.invoked = TRUE,
                                !.env = AuthEnv(doc.headers.map)]
            ELSE /\ UNCHANGED inflight
                 /\ last' = [NoEvent EXCEPT !.op = "onMessage",
                                !.frame = frame, !.started = nAuth + 1,
                                !.raised = "AttributeError"]

\* onMessage(payload, isBinary).  The transport delivers frames of an open
\* connection only.
onMessage(frame) ==
    /\ conn = "open"
    /\ UNCHANGED <<auth_strategy, authentified, deauth_handle, nTimer,
                   timers, conn, nvars>>
    /\ LET early == EarlyResponse(frame)
       IN  IF early # NoResp
           THEN /\ UNCHANGED <<auth_app, nAuth, inflight>>
                /\ last' = [NoEvent EXCEPT !.op = "onMessage",
                               !.frame = frame, !.out = <<early>>]
                /\ first_refusal' =
                       IF first_refusal.seen THEN first_refusal
                       ELSE [seen |-> TRUE, frame |-> frame,
                             out |-> <<early>>]
           ELSE LET doc == JsonLoads(frame.payload).doc
                    req == CreateRequest(doc)
                    route == Route(doc)
                IN  /\ UNCHANGED first_refusal
                    /\ CASE route = "process" ->
                              /\ UNCHANGED <<auth_app, nAuth, inflight>>
                              /\ last' = [NoEvent EXCEPT !.op = "onMessage",
                                             !.frame = frame, !.dispatched = TRUE,
                                             !.out = <<ProcessRequest(req)>>]
                         [] route = "forbid" ->
                              /\ UNCHANGED <<auth_app, nAuth, inflight>>
                              /\ last' = [NoEvent EXCEPT !.op = "onMessage",
                                             !.frame = frame,
                                             !.out = <<NotAuthentified(req)>>]
                         [] OTHER -> _authenticate(frame, doc)

----------------------------------------------------------------------------
(* The authenticator's completion *)

\* int(status.split()[0]) of a status line <<code, reason>>
StatusCode(status) == status[1]

\* _auth_response(status, message): the response it sends
_auth_response(status) ==
    LET code == StatusCode(status)
        req == CreateRequest([action |-> "authenticate", headers |-> NoHeaders])
    IN  IF code # 200
        THEN CreateResponse(code, "error", "Authentication failed.", req)
        ELSE CreateResponse(200, "message", "Authentified.", req)

FailStatuses == { <<401, "Unauthorized">>, <<503, "Service Unavailable">> }

\* delta = (expire_time - now).total_seconds(): past, now, or ahead
Delays == {-5, 0, 60}

\* Mutation of Cancel: the previous timer is left scheduled.
CancelMissing(ts, handle) == ts

\* self._deauth_handle.cancel() when the handle is not None
Cancel(ts, handle) == IF handle # None THEN ts \ {handle} ELSE ts

\* Mutation of _auth_start: a delay that is not positive is refused; the
\* timer is not scheduled and start_response is not reached.
AuthStartRefusesPastExpiry(a, delay) ==
    /\ a \in inflight
    /\ inflight' = inflight \ {a}
    /\ authentified' = TRUE
    /\ auth_app' = None
    /\ IF delay > 0
       THEN /\ nTimer' = nTimer + 1
            /\ timers' = Cancel(timers, deauth_handle) \cup {nTimer + 1}
            /\ deauth_handle' = nTimer + 1
            /\ last' = [NoEvent EXCEPT !.op = "_auth_start", !.resolved = a,
                           !.status = <<200, "OK">>, !.delay = delay,
                           !.timer = nTimer + 1, !.cancelled = deauth_handle,
                           !.out = <<_auth_response(<<200, "OK">>)>>]
       ELSE /\ timers' = Cancel(timers, deauth_handle)
            /\ UNCHANGED <<nTimer, deauth_handle>>
            /\ last' = [NoEvent EXCEPT !.op = "_auth_start", !.resolved = a,
                           !.delay = delay, !.cancelled = deauth_handle,
                           !.raised = "ValueError"]
    /\ UNCHANGED <<auth_strategy, nAuth, conn, first_refusal, nvars>>

\* Authenticator a accepts: it calls the wrapped application, _auth_start,
\* whose start_response is _auth_response.
_auth_start(a, delay) ==
    /\ a \in inflight
    /\ inflight' = inflight \ {a}
    /\ authentified' = TRUE
    /\ auth_app' = None
    /\ nTimer' = nTimer + 1
    /\ timers' = Cancel(timers, deauth_handle) \cup {nTimer + 1}
    /\ deauth_handle' = nTimer + 1
    /\ last' = [NoEvent EXCEPT !.op = "_auth_start", !.resolved = a,
                   !.status = <<200, "OK">>, !.delay = delay,
                   !.timer = nTimer + 1, !.cancelled = deauth_handle,
                   !.out = <<_auth_response(<<200, "OK">>)>>]
    /\ UNCHANGED <<auth_strategy, nAuth, conn, first_refusal, nvars>>

\* Mutation of AuthRefused: the connection is closed on a refusal.
AuthRefusedCloses(a, status) ==
    /\ a \in inflight
    /\ inflight' = inflight \ {a}
    /\ conn' = IF conn = "open" THEN "closing" ELSE conn
    /\ last' = [NoEvent EXCEPT !.op = "_auth_response", !.resolved = a,
                   !.status = status, !.out = <<_auth_response(status)>>]
    /\ UNCHANGED <<auth_strategy, authentified, auth_app, deauth_handle,
                   nAuth, nTimer, timers, first_refusal, nvars>>

\* Mutation of AuthRefused: the session is marked authenticated whatever
\* the status.
AuthRefusedAuthenticates(a, status) ==
    /\ a \in inflight
    /\ inflight' = inflight \ {a}
    /\ authentified' = TRUE
    /\ last' = [NoEvent EXCEPT !.op = "_auth_response", !.resolved = a,
                   !.status = status, !.out = <<_auth_response(status)>>]
    /\ UNCHANGED <<auth_strategy, auth_app, deauth_handle,
                   nAuth, nTimer, timers, conn, first_refusal, nvars>>

\* Authenticator a refuses: it calls start_response, _auth_response, with
\* its own status line.
AuthRefused(a, status) ==
    /\ a \in inflight
    /\ inflight' = inflight \ {a}
    /\ last' = [NoEvent EXCEPT !.op = "_auth_response", !.resolved = a,
                   !.status = status, !.out = <<_auth_response(status)>>]
    /\ UNCHANGED <<auth_strategy, authentified, auth_app, deauth_handle,
                   nAuth, nTimer, timers, conn, first_refusal, nvars>>

----------------------------------------------------------------------------
(* The expiry timer, and the end of the connection *)

\* sendClose(code, reason): starts the closing handshake of an open
\* connection and does nothing otherwise.
SendClose(c) == IF c = "open" THEN "closing" ELSE c

\* Mutation of AuthExpired: a normal closure is signalled.
AuthExpiredAsNormal == <<1000, "Authentication expired.">>

\* self.sendClose(4003, u'Authentication expired.')
AuthExpired == <<4003, "Authentication expired.">>

\* Timer t fires: _deauthenticate()
_deauthenticate(t) ==
    /\ t \in timers
    /\ timers' = timers \ {t}
    /\ authentified' = FALSE
    /\ conn' = SendClose(conn)
    /\ last' = [NoEvent EXCEPT !.op = "_deauthenticate", !.timer = t,
                   !.close = AuthExpired]
    /\ UNCHANGED <<auth_strategy, auth_app, deauth_handle, nAuth, nTimer,
                   inflight, first_refusal, nvars>>

\* onClose(wasClean, code, reason): the transport reports the close.
onClose ==
    /\ conn # "closed"
    /\ conn' = "closed"
    /\ last' = [NoEvent EXCEPT !.op = "onClose"]
    /\ UNCHANGED <<auth_strategy, authentified, auth_app, deauth_handle,
                   nAuth, nTimer, inflight, timers, first_refusal, nvars>>

----------------------------------------------------------------------------

Next ==
    \/ \E frame \in Frames : onMessage(frame)
    \/ \E a \in 1..MaxAuth, delay \in Delays : _auth_start(a, delay)
    \/ \E a \in 1..MaxAuth, status \in FailStatuses : AuthRefused(a, status)
    \/ \E t \in 1..MaxAuth : _deauthenticate(t)
    \/ onClose

Spec == Init /\ [][Next]_vars

\* The event loop runs every callback that is due: a scheduled timer fires.
FairSpec == Spec /\ \A t \in 1..MaxAuth : WF_vars(_deauthenticate(t))

----------------------------------------------------------------------------
(* NotificationProtocol: the bytes *)

\* Bound: bytes of body the peer sends.
MaxBody == 3

\* A byte sequence is a sequence of these.  "CR", "LF" and "SP" are single
\* bytes; the others stand for runs of bytes without whitespace ("POST",
\* "GET", "HTTP" = "HTTP/1.1", "H" = a header line "Host: x", "CL:2" = a
\* header line "Content-Length: 2", "b" = a byte of body).
CRLF == <<"CR", "LF">>

BlankLine == <<"CR", "LF", "CR", "LF">>

Whitespace == {"SP", "CR", "LF"}

FirstLines ==
    { <<"POST", "SP", "/", "a", "SP", "HTTP">>,
      <<"POST", "SP", "/", "SP", "HTTP">>,
      <<"GET", "SP", "/", "a", "SP", "HTTP">>,
      <<"POST", "SP", "/", "a">> }

HeaderBlocks ==
    { <<"CL:2">>, <<"H", "CR", "LF", "CL:2">>, <<"CL:0">>, <<"H">>, <<>>,
      <<"CL:">>, <<"CL:x">> }

Body(n) == [i \in 1..n |-> "b"]

\* What a peer may send: a first line, a header block, a blank line and a
\* body, each of them well formed or not.
Streams ==
    { fl \o CRLF \o hb \o BlankLine \o Body(n) :
        fl \in FirstLines, hb \in HeaderBlocks, n \in 0..MaxBody }

\* The places of s where pat occurs.
Occurrences(s, pat) ==
    { i \in 1..(Len(s) - Len(pat) + 1) : SubSeq(s, i, i + Len(pat) - 1) = pat }

\* pat in s
Contains(s, pat) == Occurrences(s, pat) # {}

FirstOccurrence(s, pat) ==
    CHOOSE i \in Occurrences(s, pat) : \A j \in Occurrences(s, pat) : i <= j

\* s.split(pat, 1)[0] and s.split(pat, 1)[1], when pat is in s
SplitHead(s, pat) == SubSeq(s, 1, FirstOccurrence(s, pat) - 1)

SplitRest(s, pat) == SubSeq(s, FirstOccurrence(s, pat) + Len(pat), Len(s))

\* line.split(): the runs of bytes between whitespace.  SplitWs(s, <<>>, <<>>)
RECURSIVE SplitWs(_, _, _)
SplitWs(s, cur, acc) ==
    IF s = <<>>
    THEN IF cur = <<>> THEN acc ELSE Append(acc, cur)
    ELSE IF Head(s) \in Whitespace
         THEN SplitWs(Tail(s), <<>>, IF cur = <<>> THEN acc ELSE Append(acc, cur))
         ELSE SplitWs(Tail(s), Append(cur, Head(s)), acc)

\* Message(io.BytesIO(headers)).get(b'content-length') with mimetools: the
\* text after "Content-Length:" of the last such line, or "None".
GetContentLength(block) ==
    LET at == { i \in 1..Len(block) :
                  block[i] \in {"CL:0", "CL:2", "CL:x", "CL:"} }
        i == CHOOSE k \in at : \A j \in at : j <= k
    IN  IF at = {} THEN "None"
        ELSE CASE block[i] = "CL:0" -> "0"
               [] block[i] = "CL:2" -> "2"
               [] block[i] = "CL:x" -> "x"
               [] OTHER -> ""

\* not length
Falsy(text) == text \in {"None", ""}

\* int(length) succeeds
IsDecimal(text) == text \in {"0", "2"}

\* int(length)
ToInt(text) == IF text = "2" THEN 2 ELSE 0

\* if self._subscriber_id
Truthy(bytes) == bytes # <<>> /\ bytes # NoBytes

\* str(self._subscriber_id) of a bytearray: its text where str is bytes
\* (mimetools exists), its repr otherwise.
StrOf(bytes) ==
    IF mimetools THEN bytes ELSE <<"bytearray(b'">> \o bytes \o <<"')">>

----------------------------------------------------------------------------
(* NotificationProtocol.data_received *)

\* One invocation works on a record: the four fields, the statuses it
\* wrote, the send_data calls it made, the exception it raised, and done
\* when it has returned or raised.

\* Mutation of InitPhase: the return after the 405 is missing.
InitPhaseNoReturn(w) ==
    IF w.state = "INIT" /\ Contains(w.data, CRLF)
    THEN LET first_line == SplitHead(w.data, CRLF)
             rest == SplitRest(w.data, CRLF)
             toks == SplitWs(first_line, <<>>, <<>>)
         IN  IF Len(toks) # 3
             THEN [w EXCEPT !.data = rest, !.raised = "ValueError",
                            !.done = TRUE]
             ELSE [w EXCEPT !.data = rest, !.state = "HEADERS",
                            !.sub = Tail(toks[2]),
                            !.written = IF toks[1] # <<"POST">>
                                        THEN Append(@, "405 Not Allowed")
                                        ELSE @]
    ELSE w

\* The INIT step: lines 179-186.
InitPhase(w) ==
    IF w.state = "INIT" /\ Contains(w.data, CRLF)
    THEN LET first_line == SplitHead(w.data, CRLF)
             rest == SplitRest(w.data, CRLF)
             toks == SplitWs(first_line, <<>>, <<>>)
         IN  IF Len(toks) # 3
             THEN [w EXCEPT !.data = rest, !.raised = "ValueError",
                            !.done = TRUE]
             ELSE IF toks[1] # <<"POST">>
             THEN [w EXCEPT !.data = rest, !.done = TRUE,
                            !.written = Append(@, "405 Not Allowed")]
             ELSE [w EXCEPT !.data = rest, !.state = "HEADERS",
                            !.sub = Tail(toks[2])]
    ELSE w

\* Mutation of HeadersPhase: a missing content-length counts as 0.
HeadersPhaseDefaultLength(w) ==
    IF ~w.done /\ w.state = "HEADERS" /\ Contains(w.data, BlankLine)
    THEN LET headers == SplitHead(w.data, BlankLine)
             rest == SplitRest(w.data, BlankLine)
             length == GetContentLength(headers)
         IN  IF ~mimetools
             THEN [w EXCEPT !.data = rest, !.raised = "TypeError",
                            !.done = TRUE]
             ELSE IF Falsy(length)
             THEN [w EXCEPT !.data = rest, !.length = 0, !.state = "BODY"]
             ELSE IF ~IsDecimal(length)
             THEN [w EXCEPT !.data = rest, !.raised = "ValueError",
                            !.done = TRUE]
             ELSE [w EXCEPT !.data = rest, !.length = ToInt(length),
                            !.state = "BODY"]
    ELSE w

\* The HEADERS step: lines 188-196.  MIMEMessage refuses an argument that
\* is no Message: without mimetools line 190 raises TypeError.
HeadersPhase(w) ==
    IF ~w.done /\ w.state = "HEADERS" /\ Contains(w.data, BlankLine)
    THEN LET headers == SplitHead(w.data, BlankLine)
             rest == SplitRest(w.data, BlankLine)
             length == GetContentLength(headers)
         IN  IF ~mimetools
             THEN [w EXCEPT !.data = rest, !.raised = "TypeError",
                            !.done = TRUE]
             ELSE IF Falsy(length)
             THEN [w EXCEPT !.data = rest, !.done = TRUE,
                            !.written = Append(@, "400 Bad Request")]
             ELSE IF ~IsDecimal(length)
             THEN [w EXCEPT !.data = rest, !.raised = "ValueError",
                            !.done = TRUE]
             ELSE [w EXCEPT !.data = rest, !.length = ToInt(length),
                            !.state = "BODY"]
    ELSE w

\* Mutation of BodyPhase: send_data is called before the subscriber is
\* tested.
BodyPhaseSendsFirst(w) ==
    IF ~w.done /\ w.state = "BODY" /\ Len(w.data) >= w.length
    THEN [w EXCEPT !.done = TRUE,
                   !.fanout = Append(@, <<w.data, StrOf(w.sub)>>),
                   !.written = Append(@, IF Truthy(w.sub) THEN "200 OK"
                                         ELSE "400 Bad Request")]
    ELSE w

\* The BODY step: lines 198-205.
BodyPhase(w) ==
    IF ~w.done /\ w.state = "BODY" /\ Len(w.data) >= w.length
    THEN IF Truthy(w.sub)
         THEN [w EXCEPT !.done = TRUE,
                        !.fanout = Append(@, <<w.data, StrOf(w.sub)>>),
                        !.written = Append(@, "200 OK")]
         ELSE [w EXCEPT !.done = TRUE,
                        !.written = Append(@, "400 Bad Request")]
    ELSE w

\* data_received(data) on the fields (data, state, sub, length)
DataReceived(data, state, sub, length, chunk) ==
    BodyPhase(HeadersPhase(InitPhase(
        [data |-> data \o chunk, state |-> state, sub |-> sub,
         length |-> length, written |-> <<>>, fanout |-> <<>>,
         raised |-> "", done |-> FALSE])))

\* connection_made(transport)
connection_made ==
    /\ n_transport = "none"
    /\ n_transport' = "open"
    /\ _data' = <<>>
    /\ _state' = "INIT"
    /\ _subscriber_id' = NoBytes
    /\ _length' = 0
    /\ n_last' = [NoCall EXCEPT !.op = "connection_made"]
    /\ UNCHANGED <<mimetools, n_stream, n_sent, n_written, n_fanout>>
    /\ UNCHANGED <<auth_strategy, authentified, auth_app, deauth_handle,
                   nAuth, nTimer, inflight, timers, conn, last,
                   first_refusal>>

\* data_received(data) with the next k bytes of the peer.  The transport
\* reads while it is open: not after write_status closed it.  When the
\* callback raises, the event loop either drops the connection or only
\* logs the exception, depending on its version.
data_received(k, drop) ==
    /\ n_transport = "open"
    /\ n_sent + k <= Len(n_stream)
    /\ LET chunk == SubSeq(n_stream, n_sent + 1, n_sent + k)
           w == DataReceived(_data, _state, _subscriber_id, _length, chunk)
       IN  /\ drop => w.raised # ""
           /\ _data' = w.data
           /\ _state' = w.state
           /\ _subscriber_id' = w.sub
           /\ _length' = w.length
           /\ n_written' = n_written \o w.written
           /\ n_fanout' = n_fanout \o w.fanout
           /\ n_transport' = IF w.written # <<>> THEN "closed"
                             ELSE IF drop THEN "aborted" ELSE "open"
           /\ n_last' = [op |-> "data_received", raised |-> w.raised]
    /\ n_sent' = n_sent + k
    /\ UNCHANGED <<mimetools, n_stream>>
    /\ UNCHANGED <<auth_strategy, authentified, auth_app, deauth_handle,
                   nAuth, nTimer, inflight, timers, conn, last,
                   first_refusal>>

\* connection_lost(exc)
connection_lost ==
    /\ n_transport \in {"open", "closed", "aborted"}
    /\ n_transport' = "lost"
    /\ _data' = NoBytes
    /\ _subscriber_id' = NoBytes
    /\ _length' = 0
    /\ n_last' = [NoCall EXCEPT !.op = "connection_lost"]
    /\ UNCHANGED <<mimetools, n_stream, n_sent, _state, n_written, n_fanout>>
    /\ UNCHANGED <<auth_strategy, authentified, auth_app, deauth_handle,
                   nAuth, nTimer, inflight, timers, conn, last,
                   first_refusal>>

NInit ==
    /\ auth_strategy = FALSE
    /\ authentified = FALSE
    /\ auth_app = None
    /\ deauth_handle = None
    /\ nAuth = 0
    /\ nTimer = 0
    /\ inflight = {}
    /\ timers = {}
    /\ conn = "open"
    /\ last = NoEvent
    /\ first_refusal = [seen |-> FALSE, frame |-> NoFrame, out |-> <<>>]
    /\ mimetools \in BOOLEAN
    /\ n_stream \in Streams
    /\ NConstructed

NNext ==
    \/ connection_made
    \/ \E k \in 1..(Len(n_stream) - n_sent), drop \in BOOLEAN :
          data_received(k, drop)
    \/ connection_lost

NSpec == NInit /\ [][NNext]_vars

----------------------------------------------------------------------------
(* Vocabulary of the properties *)

Doc(frame) == JsonLoads(frame.payload).doc

\* The frame passed structural validation.
Validated(frame) ==
    /\ ~frame.isBinary
    /\ frame.payload.decodable
    /\ ValidateRequest(Doc(frame), CreateRequest(Doc(frame))) = NoResp

\* The frame is refused before routing.
RefusedBeforeRouting(frame) == ~Validated(frame)

\* authState of the session: Authenticated, Authenticating (an attempt is
\* recorded as in progress) or Unauthenticated.
AuthState ==
    IF authentified THEN "Authenticated"
    ELSE IF auth_app # None THEN "Authenticating"
    ELSE "Unauthenticated"

SignatureAccepted(doc) == HasSignature(doc) /\ VerifySignature(doc)

SessionState == <<authentified, auth_app, deauth_handle, inflight, timers,
                  nAuth, nTimer, conn>>

----------------------------------------------------------------------------
(* Properties *)

\* C1: a frame reaches process_request only if, when it is handled, no
\* strategy is configured, or the session is authenticated, or the frame
\* carries a URL-Signature that verify_signature accepts; every other
\* validated frame whose action is not "authenticate" is answered with
\* 403 "Not authentified." and is not dispatched.
C1_DispatchOnlyWhenAuthorized ==
    [][ last'.op = "onMessage" =>
          LET doc == Doc(last'.frame)
              allowed == \/ ~auth_strategy
                         \/ authentified
                         \/ SignatureAccepted(doc)
          IN  /\ last'.dispatched => Validated(last'.frame) /\ allowed
              /\ ( /\ Validated(last'.frame)
                   /\ doc.action # "authenticate"
                   /\ ~allowed )
                 => /\ ~last'.dispatched
                    /\ last'.out = <<CreateResponse(403, "error",
                                        "Not authentified.", doc.action)>>
      ]_vars

\* C1 witness: an unauthenticated session of a listener with a strategy
\* dispatched a frame on the strength of its signature.
C1_Witness ==
    /\ last.op = "onMessage"
    /\ last.dispatched
    /\ auth_strategy /\ ~authentified
    /\ SignatureAccepted(Doc(last.frame))

C3_HandleIffAuthenticated ==
    (deauth_handle # None) <=> (AuthState = "Authenticated")

\* C4 as stated: once the transport has reported the close, the expiry
\* callback does not run.
C4_NoExpiryAfterClose ==
    ~(conn = "closed" /\ last.op = "_deauthenticate")

\* C5 as stated: at most one authenticator is in flight, and a frame that
\* arrives while one is in flight does not instantiate another.
C5_OneAuthenticatorInFlight ==
    /\ [](Cardinality(inflight) <= 1)
    /\ [][ (last'.op = "onMessage" /\ inflight # {})
            => last'.started = None ]_vars

\* C6 as stated: when an authenticator resolves with a status other than
\* 200, one response is sent, with that status code, the body
\* "Authentication failed." and the tag of "authenticate", and authState is
\* Unauthenticated afterwards.
C6_FailureLeavesUnauthenticated ==
    [][ last'.op = "_auth_response" =>
          /\ last'.out = <<CreateResponse(last'.status[1], "error",
                              "Authentication failed.", "authenticate")>>
          /\ AuthState' = "Unauthenticated"
      ]_vars

\* C7 as stated: after an authenticator resolved with a status other than
\* 200 no attempt is recorded as in progress.
C7_FailureClearsAttempt ==
    last.op = "_auth_response" => auth_app = None

\* C8: when an authenticator resolves with 200 the session is
\* authenticated, no attempt is recorded, the timer armed before is no
\* longer scheduled and a new one is, and the one response sent is
\* 200 "Authentified." tagged "authenticate"; at most one timer is scheduled
\* at any time, and the only timer that fires is the one the handle names.
C8_SuccessArmsOneTimer ==
    /\ [][ last'.op = "_auth_start" =>
             /\ authentified'
             /\ auth_app' = None
             /\ last'.cancelled = deauth_handle
             /\ (deauth_handle # None => deauth_handle \notin timers')
             /\ deauth_handle' # deauth_handle
             /\ timers' = {deauth_handle'}
             /\ last'.out = <<CreateResponse(200, "message", "Authentified.",
                                             "authenticate")>>
         ]_vars
    /\ [](Cardinality(timers) <= 1)
    /\ [][ last'.op = "_deauthenticate" => last'.timer = deauth_handle ]_vars

\* C8 witness: an authenticated session whose timer had not fired (the
\* connection is still open) authenticated again: the timer of the first
\* authentication was cancelled and the second one is scheduled.
C8_Witness ==
    /\ last.op = "_auth_start"
    /\ last.cancelled # None
    /\ conn = "open"
    /\ timers = {deauth_handle}
    /\ last.cancelled # deauth_handle

\* C9: when the timer fires the session is no longer authenticated and the
\* connection, if open, is closed with code 4003 and the reason
\* "Authentication expired."; and an authenticated session whose connection
\* stays open and which is not authenticated again does see its timer fire.
C9_ExpiryFiresAndCloses ==
    /\ [][ last'.op = "_deauthenticate" =>
             /\ ~authentified'
             /\ last'.close = <<4003, "Authentication expired.">>
             /\ conn' # "open"
         ]_vars
    /\ \A t \in 1..MaxAuth :
          (authentified /\ deauth_handle = t /\ conn = "open")
            ~> \/ (~authentified /\ last.op = "_deauthenticate"
                                  /\ last.timer = t)
               \/ conn = "closed"
               \/ deauth_handle # t

\* C9 witness: the timer of an open, authenticated session fired.
C9_Witness ==
    /\ last.op = "_deauthenticate"
    /\ ~authentified
    /\ conn = "closing"
    /\ last.timer = deauth_handle

\* C10: a frame refused before routing (binary, not JSON, or refused by
\* validate_request) gets exactly one response, an error; the session state
\* is unchanged, nothing is dispatched and no authenticator is started; the
\* same frame refused again gets the same response; a binary frame always
\* gets 400 "Schema validation failed.".
C10_RefusalIsInert ==
    /\ [][ (last'.op = "onMessage" /\ RefusedBeforeRouting(last'.frame)) =>
             /\ Len(last'.out) = 1
             /\ last'.out[1].code = 400
             /\ last'.out[1].key = "error"
             /\ SessionState' = SessionState
             /\ ~last'.dispatched
             /\ last'.started = None
             /\ last'.frame.isBinary =>
                   last'.out[1] = [code |-> 400, key |-> "error",
                                   text |-> "Schema validation failed.",
                                   req |-> NoReq]
         ]_vars
    /\ []( ( /\ last.op = "onMessage"
             /\ first_refusal.seen
             /\ last.frame = first_refusal.frame )
           => last.out = first_refusal.out )

\* C10 witness: a text frame that was refused on the fresh session was
\* refused again, with the same response, after the session authenticated.
C10_Witness ==
    /\ last.op = "onMessage"
    /\ first_refusal.seen
    /\ last.frame = first_refusal.frame
    /\ ~last.frame.isBinary
    /\ last.out = first_refusal.out
    /\ authentified
    /\ conn = "open"

\* C11 as stated: on an unauthenticated session of a listener with a
\* strategy and with no attempt in progress, a validated "authenticate"
\* frame invokes one authenticator and gets no immediate response.
C11_AuthenticateInvokesOnce ==
    [][ ( /\ last'.op = "onMessage"
          /\ Validated(last'.frame)
          /\ Doc(last'.frame).action = "authenticate"
          /\ auth_strategy /\ ~authentified /\ auth_app = None )
        => /\ last'.invoked
           /\ inflight' = inflight \cup {last'.started}
           /\ last'.started \notin inflight
           /\ last'.out = <<>>
           /\ ~last'.dispatched
      ]_vars

\* C17: the connection leaves "open" only when the expiry timer fires or
\* the transport reports the close; sendClose is called by the expiry
\* callback only; a refused frame, a 403 and a refusal of the authenticator
\* are each answered with one response on a connection that stays as it was.
C17_OnlyExpiryCloses ==
    [][ /\ conn' # conn => last'.op \in {"_deauthenticate", "onClose"}
        /\ last'.op # "_deauthenticate" => last'.close = <<0, "">>
        /\ ( \/ ( /\ last'.op = "onMessage"
                   /\ \/ RefusedBeforeRouting(last'.frame)
                      \/ ( /\ auth_strategy /\ ~authentified
                           /\ \/ auth_app # None
                              \/ Doc(last'.frame).action # "authenticate"
                           /\ ~SignatureAccepted(Doc(last'.frame)) ) )
             \/ last'.op = "_auth_response" )
          => /\ conn' = conn
             /\ Len(last'.out) = 1
             /\ last'.out[1].code >= 400
      ]_vars

\* C17 witness: a frame without a valid signature was answered with 403 and
\* the connection is still open.
C17_Witness ==
    /\ last.op = "onMessage"
    /\ Len(last.out) = 1
    /\ last.out[1].code = 403
    /\ conn = "open"

\* C18: an authenticator that accepts authenticates the session, arms the
\* timer and has the 200 response sent whatever the sign of the delay; a
\* timer armed with a delay that is not positive fires (or is superseded by
\* a later authentication), and when a timer fires the session is no longer
\* authenticated and the close is sent with code 4003.
C18_PastExpiryStillArmed ==
    /\ [][ last'.op = "_auth_start" =>
             /\ authentified'
             /\ last'.timer \in timers'
             /\ deauth_handle' = last'.timer
             /\ last'.raised = ""
             /\ last'.out = <<CreateResponse(200, "message", "Authentified.",
                                             "authenticate")>>
         ]_vars
    /\ [][ last'.op = "_deauthenticate" =>
             /\ ~authentified'
             /\ last'.close = <<4003, "Authentication expired.">>
             /\ conn' # "open"
         ]_vars
    /\ \A t \in 1..MaxAuth :
          (last.op = "_auth_start" /\ last.delay <= 0 /\ last.timer = t)
            ~> (last.op = "_deauthenticate" /\ last.timer = t)
               \/ (deauth_handle # t)

\* C18 witness: an authenticator accepted a token that had already expired:
\* the session is authenticated and its timer is scheduled.
C18_ArmedWitness ==
    /\ last.op = "_auth_start"
    /\ last.delay < 0
    /\ authentified
    /\ last.timer \in timers
    /\ conn = "open"

\* C19 as stated: the session never records an attempt in progress whose
\* authenticator was not invoked; an "authenticate" frame without headers
\* has the authenticator invoked with the default context.
C19_NoAttemptWithoutInvocation ==
    (last.op = "onMessage" /\ last.started # None)
      => /\ last.invoked
         /\ (~Doc(last.frame).headers.present => last.env = _fake_env)

\* C20: a frame dispatched on the strength of its signature, and a frame
\* refused with 403, leave _authentified, _auth_app, the timer handle, the
\* authenticators in flight and the timers as they were; the session becomes
\* authenticated only when an authenticator accepts.
C20_SignatureIsStateless ==
    /\ [][ ( /\ last'.op = "onMessage"
              /\ Validated(last'.frame)
              /\ auth_strategy /\ ~authentified
              /\ \/ last'.dispatched
                 \/ last'.out = <<CreateResponse(403, "error",
                        "Not authentified.", Doc(last'.frame).action)>> )
            => /\ UNCHANGED <<authentified, auth_app, deauth_handle,
                              inflight, timers>>
               /\ last'.started = None
         ]_vars
    /\ [][ (~authentified /\ authentified') => last'.op = "_auth_start" ]_vars

\* C20 witness: a session that dispatched a signed frame is still
\* unauthenticated, with no attempt and no timer.
C20_Witness ==
    /\ last.op = "onMessage"
    /\ last.dispatched
    /\ SignatureAccepted(Doc(last.frame))
    /\ auth_strategy /\ ~authentified
    /\ auth_app = None /\ deauth_handle = None /\ timers = {}

----------------------------------------------------------------------------
(* Properties of NotificationProtocol *)

\* What data_received does when the peer's bytes come in one chunk.
AtOnce == DataReceived(<<>>, "INIT", NoBytes, 0, n_stream)

\* Nothing more will happen on the connection: every byte was delivered, or
\* a status was written and the transport is closed.
Settled == n_sent = Len(n_stream) \/ n_written # <<>>

\* C12 as stated: however the peer's bytes are cut into chunks, the status
\* written and the send_data call are those of the delivery in one chunk.
C12_ChunkingInvariant ==
    Settled => /\ n_written = AtOnce.written
               /\ n_fanout = AtOnce.fanout

Rank(state) ==
    CASE state = "INIT" -> 1
      [] state = "HEADERS" -> 2
      [] state = "BODY" -> 3
      [] OTHER -> 0

\* C13: the phase never moves backward; it leaves INIT only in an
\* invocation whose buffer holds a CR LF, and enters BODY only in an
\* invocation whose buffer after the first line holds a blank line that
\* ends a header block with a decimal content-length, which becomes
\* _length; nothing but connection_made and data_received changes it.
C13_PhaseForwardOnDelimiter ==
    /\ [][ n_last'.op = "data_received" =>
             LET buf == _data \o SubSeq(n_stream, n_sent + 1, n_sent')
                 rest == IF _state # "INIT" THEN buf
                         ELSE IF Contains(buf, CRLF)
                              THEN SplitRest(buf, CRLF) ELSE <<>>
             IN  /\ Rank(_state') >= Rank(_state)
                 /\ (_state = "INIT" /\ _state' # "INIT")
                      => Contains(buf, CRLF)
                 /\ (_state # "BODY" /\ _state' = "BODY")
                      => /\ Contains(rest, BlankLine)
                         /\ IsDecimal(GetContentLength(
                                SplitHead(rest, BlankLine)))
                         /\ _length' = ToInt(GetContentLength(
                                SplitHead(rest, BlankLine)))
         ]_vars
    /\ [][ _state' # _state
             => /\ n_last'.op \in {"connection_made", "data_received"}
                /\ _state = "unset" \/ Rank(_state') > Rank(_state) ]_vars

\* C13 witness: the parser reached BODY and waits for more bytes of body.
C13_Witness ==
    /\ n_last.op = "data_received"
    /\ _state = "BODY"
    /\ n_written = <<>>
    /\ n_sent < Len(n_stream)
    /\ Len(_data) < _length

\* C14: on one connection send_data is called at most once and at most one
\* status is written, and once a status is written the statuses, the
\* send_data calls and the phase no longer change.
C14_OneNotificationPerConnection ==
    /\ [](Len(n_written) <= 1 /\ Len(n_fanout) <= 1)
    /\ [][ n_written # <<>> => UNCHANGED <<n_written, n_fanout, _state>> ]_vars

\* C14 witness: a notification was handed over and answered while the peer
\* still had bytes to send, and the connection went on to be lost.
C14_Witness ==
    /\ n_written = <<"200 OK">>
    /\ Len(n_fanout) = 1
    /\ n_sent < Len(n_stream)
    /\ n_transport = "lost"

\* C15: a connection answered with a status other than 200 OK is closed
\* and nothing of it is handed to send_data, then or later.
C15_ErrorNeverFansOut ==
    (n_written # <<>> /\ n_written[1] # "200 OK")
      => /\ n_written[1] \in {"405 Not Allowed", "400 Bad Request"}
         /\ n_fanout = <<>>
         /\ n_transport \in {"closed", "lost"}

\* C15 witness: a POST without subscriber was answered 400 in the BODY step.
C15_Witness ==
    /\ n_written = <<"400 Bad Request">>
    /\ _state = "BODY"
    /\ n_fanout = <<>>
    /\ n_transport = "closed"

\* The well-formed notifications among Streams, with their body.
WellFormed ==
    { [bytes |-> <<"POST", "SP", "/", "a", "SP", "HTTP">> \o CRLF \o hb
                   \o BlankLine \o Body(n),
       body |-> Body(n)] :
        hb \in {<<"CL:2">>, <<"H", "CR", "LF", "CL:2">>}, n \in {2} }
    \cup
    { [bytes |-> <<"POST", "SP", "/", "a", "SP", "HTTP">> \o CRLF
                   \o <<"CL:0">> \o BlankLine,
       body |-> <<>>] }

\* C16 as stated: when a well-formed notification has been delivered, in
\* whatever chunks, send_data was called once with its body and its
\* subscriber, 200 OK was written and the connection is closed; send_data
\* is never called with fewer bytes than the content-length.
C16_WellFormedDelivered ==
    \A m \in WellFormed :
      n_stream = m.bytes =>
        /\ n_sent = Len(n_stream) =>
              /\ n_fanout = << <<m.body, <<"a">> >> >>
              /\ n_written = <<"200 OK">>
              /\ n_transport \in {"closed", "lost"}
        /\ \A i \in 1..Len(n_fanout) : Len(n_fanout[i][1]) >= Len(m.body)

====
